---- MODULE Spec2Model ----
(***************************************************************************)
(* State-machine model of the BlitzWare Vue SDK authentication object      *)
(* (BlitzWareAuth), its localStorage helpers and its server client.        *)
(*                                                                         *)
(* One step of the model is one run-to-completion piece of JavaScript: the *)
(* code between two suspension points (awaits).  A flow that waits for the *)
(* network rests in a pc value; the arrival of the response is an action.  *)
(* A continuation that is already queued as a microtask ("rejected",       *)
(* "ready") runs before any network response or digest completion is       *)
(* delivered (MicrotaskPending), while calls made by the host application  *)
(* (login, logout, hasRole) may happen at any step once the object is      *)
(* installed on the app, which is how the host reaches it.                 *)
(*                                                                         *)
(* Specifications: Spec is the page load with login() and logout();        *)
(* SpecRoles asks hasRole of every user record; SpecGuard adds a router     *)
(* navigation handled by one of the guards; SpecClient calls fetchUserInfo  *)
(* and tryRefreshToken on their own; SpecToken is the ordinary page load   *)
(* with every kind of stored access token; SpecLogin is overlapping        *)
(* login() calls on a settled page; SpecLive is the page load with one     *)
(* guarded navigation under fair scheduling.                               *)
(***************************************************************************)
EXTENDS Integers, Sequences, FiniteSets, TLC

(***************************************************************************)
(* Bounds of the model.                                                    *)
(***************************************************************************)
MaxLogouts == 2
MaxLogins == 1

(***************************************************************************)
(* Values.  Everything kept in localStorage or read from the URL is a      *)
(* string; Absent stands for null/undefined (getItem of a missing key,     *)
(* URLSearchParams.get of a missing parameter).                            *)
(***************************************************************************)
Absent == "<absent>"

Truthy(v) == v # Absent /\ v # ""

Keys == {"access_token", "refresh_token", "state", "pkce_code_verifier"}

\* localStorage.setItem / getItem / removeItem
setItem(ls, k, v) == [ls EXCEPT ![k] = v]
getItem(ls, k) == ls[k]
removeItem(ls, k) == [ls EXCEPT ![k] = Absent]

setToken(ls, type, token) == setItem(ls, type, token)
getToken(ls, type) == getItem(ls, type)
removeToken(ls, type) == removeItem(ls, type)
setState(ls, s) == setItem(ls, "state", s)
getState(ls) == getItem(ls, "state")
removeState(ls) == removeItem(ls, "state")
setCodeVerifier(ls, v) == setItem(ls, "pkce_code_verifier", v)
getCodeVerifier(ls) == getItem(ls, "pkce_code_verifier")

removeCodeVerifier_Noop(ls) == ls

removeCodeVerifier(ls) == removeItem(ls, "pkce_code_verifier")

\* The logout() of the first SDK version: tokens and state, not the verifier.
clearSession_KeepsVerifier(ls) ==
    removeState(removeToken(removeToken(ls, "access_token"), "refresh_token"))

clearSession(ls) ==
    removeCodeVerifier(
        removeState(removeToken(removeToken(ls, "access_token"), "refresh_token")))

StoreEmpty(ls) == \A k \in Keys : ls[k] = Absent

(***************************************************************************)
(* The URL query: window.location.search as the sequence of its            *)
(* <<name, value>> pairs.                                                  *)
(***************************************************************************)
\* /[?&]name=[^&]+/ : some pair with that name and a non-empty value.
ReTest(q, name) == \E i \in DOMAIN q : q[i][1] = name /\ q[i][2] # ""

\* URLSearchParams.get: the value of the first pair with that name, or null.
urlGet(q, name) ==
    IF \E i \in DOMAIN q : q[i][1] = name
    THEN LET first == CHOOSE i \in DOMAIN q :
                          /\ q[i][1] = name
                          /\ \A j \in DOMAIN q : q[j][1] = name => i <= j
         IN q[first][2]
    ELSE Absent

\* A check that takes any code or access_token for a callback.
hasAuthParams_NoState(q) == ReTest(q, "access_token") \/ ReTest(q, "code")

hasAuthParams(q) ==
    (ReTest(q, "access_token") \/ ReTest(q, "code")) /\ ReTest(q, "state")

\* The query strings a page load is checked with.
Searches ==
    { <<>>,
      << <<"state", "s0">>, <<"code", "c1">> >>,
      << <<"state", "sX">>, <<"code", "c1">>, <<"access_token", "at_url">>,
         <<"refresh_token", "rt_url">> >>,
      << <<"state", "s0">>, <<"access_token", "at_url">>,
         <<"refresh_token", "rt_url">> >>,
      << <<"state", "s0">>, <<"access_token", "at_url">> >>,
      << <<"state", "s0">>, <<"code", "c1">>, <<"access_token", "at_url">>,
         <<"refresh_token", "rt_url">> >>,
      << <<"code", "c1">>, <<"access_token", "at_url">> >>,
      << <<"state", "s0">>, <<"code", "">>, <<"code", "c1">>,
         <<"refresh_token", "rt_url">> >>,
      << <<"state", "">>, <<"code", "c1">>, <<"refresh_token", "rt_url">> >> }

(***************************************************************************)
(* Access tokens and the local expiry check.                               *)
(***************************************************************************)
\* new Date(), in milliseconds.
NowMs == 5000

\* The exp of a payload: not there, a JSON number (seconds), or a JSON string.
NoExp == [type |-> "undefined", n |-> 0, text |-> ""]
NumExp(n) == [type |-> "number", n |-> n, text |-> ""]
StrExp(text) == [type |-> "string", n |-> 0, text |-> text]

Undecodable == [decoded |-> FALSE, exp |-> NoExp]

\* parseJwt: the payload of the token.  When decoding throws, the catch block
\* logs and the function returns undefined (not {}).
parseJwt(token) ==
    CASE token = "at_valid" -> [decoded |-> TRUE, exp |-> NumExp(6)]
      [] token = "at_expired" -> [decoded |-> TRUE, exp |-> NumExp(4)]
      [] token = "at_new" -> [decoded |-> TRUE, exp |-> NumExp(9)]
      [] token = "at_url" -> [decoded |-> TRUE, exp |-> NumExp(9)]
      [] token = "at_now" -> [decoded |-> TRUE, exp |-> NumExp(5)]
      [] token = "at_zero" -> [decoded |-> TRUE, exp |-> NumExp(0)]
      [] token = "at_noexp" -> [decoded |-> TRUE, exp |-> NoExp]
      [] token = "at_str_valid" -> [decoded |-> TRUE, exp |-> StrExp("6")]
      [] token = "at_str_expired" -> [decoded |-> TRUE, exp |-> StrExp("4")]
      [] token = "at_str_zero" -> [decoded |-> TRUE, exp |-> StrExp("0")]
      [] token = "at_str_word" -> [decoded |-> TRUE, exp |-> StrExp("soon")]
      [] token = "at_str_empty" -> [decoded |-> TRUE, exp |-> StrExp("")]
      [] OTHER -> Undecodable

\* Number(text) for the strings of the model; nan for what is not numeric.
ToNumber(text) ==
    CASE text = "6" -> [nan |-> FALSE, n |-> 6]
      [] text = "4" -> [nan |-> FALSE, n |-> 4]
      [] text = "0" -> [nan |-> FALSE, n |-> 0]
      [] text = "" -> [nan |-> FALSE, n |-> 0]
      [] OTHER -> [nan |-> TRUE, n |-> 0]

\* !exp : undefined, the number 0 and the empty string.
ExpFalsy(exp) ==
    \/ exp.type = "undefined"
    \/ exp.type = "number" /\ exp.n = 0
    \/ exp.type = "string" /\ exp.text = ""

NullDate == -1

\* An expiry read as milliseconds already.
parseExp_NoScaling(exp) ==
    IF ExpFalsy(exp)
    THEN NullDate
    ELSE LET num == IF exp.type = "number" THEN [nan |-> FALSE, n |-> exp.n]
                    ELSE ToNumber(exp.text)
         IN IF num.nan THEN NullDate ELSE num.n

\* parseExp: the expiry in milliseconds, or NullDate for null.
parseExp(exp) ==
    IF ExpFalsy(exp)
    THEN NullDate
    ELSE LET num == IF exp.type = "number" THEN [nan |-> FALSE, n |-> exp.n]
                    ELSE ToNumber(exp.text)
         IN IF num.nan THEN NullDate ELSE num.n * 1000

\* const { exp } = parseJwt(token) throws a TypeError on undefined.
isTokenValidThrows(ls) ==
    /\ Truthy(getToken(ls, "access_token"))
    /\ ~parseJwt(getToken(ls, "access_token")).decoded

isTokenValid(ls) ==
    LET token == getToken(ls, "access_token") IN
    /\ Truthy(token)
    /\ parseJwt(token).decoded
    /\ parseExp(parseJwt(token).exp) # NullDate
    /\ parseExp(parseJwt(token).exp) > NowMs

(***************************************************************************)
(* Users and roles.                                                        *)
(***************************************************************************)
Null == "null"

\* The profiles the userinfo endpoint answers with.
Profiles == {"u_noroles", "u_empty", "u_admin", "u_mod", "u_all", "u_blank"}

\* user.roles: defined or not, and the list.
UserRoles(u) ==
    CASE u = "u_empty" -> [defined |-> TRUE, list |-> <<>>]
      [] u = "u_admin" -> [defined |-> TRUE, list |-> <<"admin">>]
      [] u = "u_mod" -> [defined |-> TRUE, list |-> <<"moderator">>]
      [] u = "u_all" -> [defined |-> TRUE, list |-> <<"admin", "moderator", "user">>]
      [] u = "u_blank" -> [defined |-> TRUE, list |-> <<"", "user">>]
      [] OTHER -> [defined |-> FALSE, list |-> <<>>]

\* The role argument of hasRole: none, one string, or an array of strings.
RoleArgs ==
    { [kind |-> "none", names |-> <<>>],
      [kind |-> "string", names |-> <<"">>],
      [kind |-> "string", names |-> <<"admin">>],
      [kind |-> "string", names |-> <<"Admin">>],
      [kind |-> "string", names |-> <<"user">>],
      [kind |-> "array", names |-> <<>>],
      [kind |-> "array", names |-> <<"admin">>],
      [kind |-> "array", names |-> <<"admin", "moderator">>],
      [kind |-> "array", names |-> <<"Admin", "moderator">>],
      [kind |-> "array", names |-> <<"", "admin">>] }

\* !role : undefined and the empty string are falsy, every array is truthy.
RoleFalsy(role) ==
    \/ role.kind = "none"
    \/ role.kind = "string" /\ role.names[1] = ""

includes(list, x) == \E i \in DOMAIN list : list[i] = x

ToLower(s) == IF s = "Admin" THEN "admin" ELSE s

hasRole_IgnoreCase(u, role, requireAllRoles) ==
    IF u = Null \/ ~UserRoles(u).defined \/ RoleFalsy(role)
    THEN FALSE
    ELSE LET userRoles == UserRoles(u).list
             requiredRoles == role.names
         IN IF requireAllRoles
            THEN \A i \in DOMAIN requiredRoles :
                     \E j \in DOMAIN userRoles :
                         ToLower(userRoles[j]) = ToLower(requiredRoles[i])
            ELSE \E i \in DOMAIN requiredRoles :
                     \E j \in DOMAIN userRoles :
                         ToLower(userRoles[j]) = ToLower(requiredRoles[i])

hasRole(u, role, requireAllRoles) ==
    IF u = Null \/ ~UserRoles(u).defined \/ RoleFalsy(role)
    THEN FALSE
    ELSE LET userRoles == UserRoles(u).list
             requiredRoles == role.names
         IN IF requireAllRoles
            THEN \A i \in DOMAIN requiredRoles : includes(userRoles, requiredRoles[i])
            ELSE \E i \in DOMAIN requiredRoles : includes(userRoles, requiredRoles[i])

(***************************************************************************)
(* The server client's error translation and PKCE material.                *)
(***************************************************************************)
\* A failed request: error.response.data, if there is one, and its code,
\* message and details.
ResponseData(code, message, details) ==
    [hasData |-> TRUE, code |-> code, message |-> message, details |-> details]

NoResponseData ==
    [hasData |-> FALSE, code |-> Absent, message |-> Absent, details |-> Absent]

ErrorResponses ==
    {NoResponseData,
     ResponseData("server_code", "server message", "server details"),
     ResponseData("server_code", "server message", Absent),
     ResponseData(Absent, "server message", Absent),
     ResponseData("server_code", Absent, "server details"),
     ResponseData("", "server message", Absent)}

\* new BlitzWareAuthError(message, code, details)
BlitzWareAuthError(message, code, details) ==
    [message |-> message, code |-> code, details |-> details]

\* An error translation that never looks at the response body.
parseApiError_AlwaysFallback(error, fallbackMessage, fallbackCode) ==
    BlitzWareAuthError(fallbackMessage, fallbackCode, Absent)

parseApiError(error, fallbackMessage, fallbackCode) ==
    IF error.hasData /\ Truthy(error.code) /\ Truthy(error.message)
    THEN BlitzWareAuthError(error.message, error.code, error.details)
    ELSE BlitzWareAuthError(fallbackMessage, fallbackCode, Absent)

\* The catch blocks of the five requests: the failed request, its error and
\* the BlitzWareAuthError thrown for it.
Thrown(request, error, fallbackMessage, fallbackCode) ==
    [request |-> request, response |-> error,
     error |-> parseApiError(error, fallbackMessage, fallbackCode)]

ExchangeThrows(error) ==
    Thrown("exchange", error, "Failed to exchange code for token", "exchange_failed")

RefreshThrows(error) ==
    Thrown("refresh", error, "Failed to refresh token", "refresh_failed")

UserInfoThrows(error) ==
    Thrown("userinfo", error, "Failed to fetch user info", "userinfo_failed")

IntrospectThrows(error) ==
    Thrown("introspect", error, "Failed to introspect token", "introspect_failed")

LogoutThrows(error) ==
    Thrown("logout", error, "Failed to log out", "logout_failed")

NoError ==
    [request |-> "none", response |-> NoResponseData,
     error |-> BlitzWareAuthError(Absent, Absent, Absent)]

\* generateSecureState / generateCodeVerifier of the i-th login(): fresh
\* random values, different from every value generated or stored before.
FreshState(i) == IF i = 1 THEN "s1" ELSE IF i = 2 THEN "s2" ELSE "s3"
FreshVerifier(i) == IF i = 1 THEN "v1" ELSE IF i = 2 THEN "v2" ELSE "v3"

\* generateCodeChallenge: base64url(SHA-256(verifier)).
Challenge(v) ==
    CASE v = "v1" -> "h1"
      [] v = "v2" -> "h2"
      [] v = "v3" -> "h3"
      [] OTHER -> "h0"

ResponseTypes == {Absent, "code", "token"}

Logins == 1..MaxLogins

NoNav == [state |-> Absent, response_type |-> Absent, code_challenge |-> Absent,
          code_challenge_method |-> Absent]

NoTokens == [access_token |-> Absent, refresh_token |-> Absent]

\* How an introspection request ends: the server's active true or false, or
\* no usable response.
IntrospectionOutcomes == {"active", "inactive", "failed"}

NoIntrospection == [type |-> Absent, outcome |-> "none"]

NoQuery == [asked |-> FALSE, role |-> [kind |-> "none", names |-> <<>>],
            requireAllRoles |-> FALSE, result |-> FALSE]

\* A navigation: the guard that handles it and what it reads from the target
\* route (meta.role, meta.requireAllRoles, query.returnUrl) or from its own
\* arguments (the role guard).  "undefined" is a property that is not set.
NoRole == [kind |-> "none", names |-> <<>>]

NoRoute == [kind |-> "none", role |-> NoRole, requireAllRoles |-> "undefined",
            returnUrl |-> Absent]

NoAsk == [asked |-> FALSE, role |-> NoRole, requireAllRoles |-> FALSE]

NoGuard == [pc |-> "idle", route |-> NoRoute, polls |-> 0, next |-> "<not called>",
            nextCalls |-> 0, hasRoleArgs |-> NoAsk]

(***************************************************************************)
(* State.                                                                  *)
(***************************************************************************)
VARIABLES
    constructed,       \* new BlitzWareAuth(...) returned an object
    authParams,        \* authParams.value.responseType
    state,             \* this.state.value
    user,              \* this.user.value: Null or a profile
    isAuthenticated,   \* this.isAuthenticated.value
    isLoading,         \* this.isLoading.value
    localStorage,      \* the four keys of the credential store
    search,            \* window.location.search
    historyReplaces,   \* calls of window.history.replaceState
    location,          \* the last assignment to window.location.href
    detPc,             \* where checkAuthState rests
    detBranch,         \* the branch checkAuthState took
    detError,          \* code of the error its catch handler receives
    detLoadingWrites,  \* writes of isLoading made by checkAuthState
    detLateWrites,     \* its writes of the store after it ended loading
    sent,              \* requests sent to the server so far
    introspection,     \* the last answered introspection request
    tokenResponse,     \* response.data of the last answered token request
    userData,          \* response.data of the last answered userinfo request
    logoutsInFlight,   \* logout() calls waiting for the logout response
    logoutCalls,       \* logout() calls made
    loginPc,           \* where each login() call rests
    escaped,           \* errors that reached the host application
    lastEvent,         \* the step taken last
    lastQuery,         \* the hasRole call made in the last step, if any
    lastError,         \* the request that failed in the last step, if any
    guard              \* the navigation guard that is running, if any

vars == <<constructed, authParams, state, user, isAuthenticated, isLoading,
          localStorage, search, historyReplaces, location, detPc, detBranch,
          detError, detLoadingWrites, detLateWrites, sent, introspection, tokenResponse,
          userData, logoutsInFlight, logoutCalls, loginPc, escaped, lastEvent, lastQuery,
          lastError, guard>>

\* What checkAuthState reads and writes, as one record.
Cur ==
    [isAuthenticated |-> isAuthenticated, isLoading |-> isLoading, user |-> user,
     ls |-> localStorage, search |-> search, historyReplaces |-> historyReplaces,
     detPc |-> detPc, detBranch |-> detBranch, detError |-> detError,
     detLoadingWrites |-> detLoadingWrites, detLateWrites |-> detLateWrites,
     sent |-> sent,
     introspection |-> introspection, tokenResponse |-> tokenResponse, userData |-> userData]

Apply(r) ==
    /\ isAuthenticated' = r.isAuthenticated
    /\ isLoading' = r.isLoading
    /\ user' = r.user
    /\ localStorage' = r.ls
    /\ search' = r.search
    /\ historyReplaces' = r.historyReplaces
    /\ detPc' = r.detPc
    /\ detBranch' = r.detBranch
    /\ detError' = r.detError
    /\ detLoadingWrites' = r.detLoadingWrites
    /\ detLateWrites' = r.detLateWrites
    /\ sent' = r.sent
    /\ introspection' = r.introspection
    /\ tokenResponse' = r.tokenResponse
    /\ userData' = r.userData

InitialStores ==
    [Keys -> {Absent, "at_valid", "at_expired", "at_garbage", "rt0", "s0", "v0"}]

StoreWellFormed(ls) ==
    /\ ls["access_token"] \in {Absent, "at_valid", "at_expired", "at_garbage"}
    /\ ls["refresh_token"] \in {Absent, "rt0"}
    /\ ls["state"] \in {Absent, "s0"}
    /\ ls["pkce_code_verifier"] \in {Absent, "v0"}

\* Field initialisers and constructor of BlitzWareAuth.
Init ==
    /\ localStorage \in {ls \in InitialStores : StoreWellFormed(ls)}
    /\ search \in Searches
    /\ authParams \in ResponseTypes
    /\ constructed = ~isTokenValidThrows(localStorage)
    /\ escaped = IF constructed THEN {} ELSE {"constructor"}
    /\ user = Null
    /\ isAuthenticated = (constructed /\ isTokenValid(localStorage))
    /\ isLoading = TRUE
    /\ state = IF Truthy(getState(localStorage)) THEN getState(localStorage) ELSE "g0"
    /\ historyReplaces = 0
    /\ location = NoNav
    /\ detPc = "init"
    /\ detBranch = "none"
    /\ detError = "none"
    /\ detLoadingWrites = 0
    /\ detLateWrites = 0
    /\ sent = {}
    /\ introspection = NoIntrospection
    /\ tokenResponse = NoTokens
    /\ userData = Null
    /\ logoutsInFlight = 0
    /\ logoutCalls = 0
    /\ loginPc = [i \in Logins |-> "idle"]
    /\ lastEvent = "none"
    /\ lastQuery = NoQuery
    /\ lastError = NoError
    /\ guard = NoGuard

\* A continuation is queued as a microtask: it runs before any response.
MicrotaskPending ==
    \/ detPc = "rejected"
    \/ \E i \in DOMAIN loginPc : loginPc[i] = "ready"

(***************************************************************************)
(* checkAuthState, piece by piece.                                         *)
(***************************************************************************)
\* this.isLoading.value = false, as written by checkAuthState.
EndLoading(r) ==
    [r EXCEPT !.isLoading = FALSE, !.detLoadingWrites = @ + 1, !.detPc = "done"]

\* fetchUserInfo and tryRefreshToken called on their own, with no handler of
\* checkAuthState behind them.
DirectCalls == {"fetchUserInfo", "tryRefreshToken"}

\* Catch handlers that clear the session and never end loading.
DetCatch_NoFinally(r) ==
    [r EXCEPT !.ls = clearSession(r.ls), !.isAuthenticated = FALSE, !.user = Null,
              !.detPc = "done"]

\* The catch handlers (and the finally that follows them).  A direct call just
\* rejects.
DetCatch(r) ==
    IF r.detBranch \in DirectCalls
    THEN [r EXCEPT !.detPc = "done"]
    ELSE EndLoading([r EXCEPT !.ls = clearSession(r.ls), !.isAuthenticated = FALSE,
                              !.user = Null])

\* An awaited call threw before its first request: the rejection is handled in
\* a microtask.
Reject(r, code) == [r EXCEPT !.detPc = "rejected", !.detError = code]

\* An awaited call threw after a response: the handlers run in the same task.
Fail(r, code) == DetCatch([r EXCEPT !.detError = code])

\* fetchUserInfo up to its first request: validateAccessToken reads the token
\* and introspects it.
FetchUserInfoStart(r) ==
    IF ~Truthy(getToken(r.ls, "access_token"))
    THEN Reject(r, "token_inactive")
    ELSE [r EXCEPT !.detPc = "introspect",
                   !.sent = @ \cup {"introspect:access_token"}]

\* Storing whatever the response has under refresh_token.
StoreTokenResponse_AlwaysRefresh(ls, access, refresh) ==
    setToken(setToken(ls, "access_token", access), "refresh_token", refresh)

\* setToken("access_token", ...) and, if (response.data.refresh_token),
\* setToken("refresh_token", ...).
StoreTokenResponse(ls, access, refresh) ==
    LET ls1 == setToken(ls, "access_token", access)
    IN IF Truthy(refresh) THEN setToken(ls1, "refresh_token", refresh) ELSE ls1

StateMatches_Always(urlState, held) == TRUE

StateMatches(urlState, held) == urlState = held

StartMismatch(r) ==
    [r EXCEPT !.isAuthenticated = FALSE, !.isLoading = FALSE,
              !.detLoadingWrites = @ + 1, !.detPc = "done",
              !.detBranch = "mismatch"]

MissingVerifier_Never(ls) == FALSE

MissingVerifier(ls) == ~Truthy(getCodeVerifier(ls))

\* A code branch that falls through to the refresh_token of the URL.
StartCode_StoresUrlRefreshToken(r) ==
    LET q == [r EXCEPT !.ls = IF Truthy(urlGet(r.search, "refresh_token"))
                              THEN setToken(@, "refresh_token",
                                            urlGet(r.search, "refresh_token"))
                              ELSE @]
    IN IF MissingVerifier(q.ls)
       THEN Reject([q EXCEPT !.detBranch = "code"], "missing_code_verifier")
       ELSE [q EXCEPT !.detBranch = "code", !.detPc = "exchange",
                      !.sent = @ \cup {"token:authorization_code"}]

\* exchangeCodeForToken up to its request.
StartCode(r) ==
    IF MissingVerifier(r.ls)
    THEN Reject([r EXCEPT !.detBranch = "code"], "missing_code_verifier")
    ELSE [r EXCEPT !.detBranch = "code", !.detPc = "exchange",
                   !.sent = @ \cup {"token:authorization_code"}]

StoreUrlRefreshToken_Skips(r) == r

\* const refresh_token = urlParams.get("refresh_token");
\* if (refresh_token) setToken("refresh_token", refresh_token).
\* These are the last statements of the callback block: in the branch with
\* neither a code nor an access_token they follow this.isLoading.value = false.
StoreUrlRefreshToken(r) ==
    IF Truthy(urlGet(r.search, "refresh_token"))
    THEN [r EXCEPT !.ls = setToken(@, "refresh_token", urlGet(r.search, "refresh_token")),
                   !.detLateWrites = IF r.detLoadingWrites > 0 THEN @ + 1 ELSE @]
    ELSE r

StartImplicit_EndsLoadingEarly(r) ==
    StoreUrlRefreshToken(
        FetchUserInfoStart(
            [r EXCEPT !.ls = setToken(@, "access_token", urlGet(r.search, "access_token")),
                      !.isAuthenticated = TRUE, !.isLoading = FALSE,
                      !.detLoadingWrites = @ + 1, !.detBranch = "implicit"]))

StartImplicit(r) ==
    StoreUrlRefreshToken(
        FetchUserInfoStart(
            [r EXCEPT !.ls = setToken(@, "access_token", urlGet(r.search, "access_token")),
                      !.isAuthenticated = TRUE, !.detBranch = "implicit"]))

StartNeither(r) ==
    StoreUrlRefreshToken(
        [r EXCEPT !.isAuthenticated = FALSE, !.isLoading = FALSE,
                  !.detLoadingWrites = @ + 1, !.detPc = "done",
                  !.detBranch = "neither"])

\* A determination that trusts the local expiry check and fetches nothing.
StartValid_SkipsFetch(r) ==
    EndLoading([r EXCEPT !.detBranch = "valid", !.isAuthenticated = TRUE])

StartValid(r) == FetchUserInfoStart([r EXCEPT !.detBranch = "valid"])

\* A refresh that posts to the token endpoint without validating first.
TryRefreshTokenStart_NoIntrospection(r) ==
    IF ~Truthy(getToken(r.ls, "refresh_token"))
    THEN Reject(r, "no_refresh_token")
    ELSE [r EXCEPT !.detPc = "refresh_token",
                   !.sent = @ \cup {"token:refresh_token"}]

\* tryRefreshToken up to its first request: validateRefreshToken.
TryRefreshTokenStart(r) ==
    IF ~Truthy(getToken(r.ls, "refresh_token"))
    THEN Reject(r, "refresh_token_inactive")
    ELSE [r EXCEPT !.detPc = "refresh_introspect",
                   !.sent = @ \cup {"introspect:refresh_token"}]

StartRefresh(r) == TryRefreshTokenStart([r EXCEPT !.detBranch = "refresh"])

\* checkAuthState up to its first suspension point.
checkAuthState(r, held) ==
    IF hasAuthParams(r.search)
    THEN IF ~StateMatches(urlGet(r.search, "state"), held)
         THEN StartMismatch(r)
         ELSE IF Truthy(urlGet(r.search, "code"))
              THEN StartCode(r)
              ELSE IF Truthy(urlGet(r.search, "access_token"))
                   THEN StartImplicit(r)
                   ELSE StartNeither(r)
    ELSE IF isTokenValid(r.ls) THEN StartValid(r) ELSE StartRefresh(r)

(***************************************************************************)
(* Actions of the startup determination.                                   *)
(***************************************************************************)
HostUnchanged ==
    UNCHANGED <<guard, constructed, authParams, state, location, logoutsInFlight,
                logoutCalls, loginPc, escaped>>

\* install(app): checkAuthState() runs up to its first suspension point.
\* There is an object to install only if the constructor returned one, and
\* then the stored access token is decodable or absent, so the isTokenValid()
\* of checkAuthState does not throw either.
Install ==
    /\ constructed
    /\ detPc = "init"
    /\ Apply(checkAuthState(Cur, state))
    /\ lastEvent' = IF detPc' = "done" THEN "det_done" ELSE "det"
    /\ lastQuery' = NoQuery
    /\ lastError' = NoError
    /\ HostUnchanged

\* The microtask that handles a rejection raised before any request.
DetRejected ==
    /\ detPc = "rejected"
    /\ Apply(DetCatch(Cur))
    /\ lastEvent' = "det_done"
    /\ lastQuery' = NoQuery
    /\ lastError' = NoError
    /\ HostUnchanged

\* exchangeCodeForToken after the token response, then the code branch up to
\* the introspection request of fetchUserInfo.
ExchangeSucceeds_AuthenticatesEarly(r, refresh) ==
    FetchUserInfoStart(
        [r EXCEPT !.ls = StoreTokenResponse(removeCodeVerifier(r.ls), "at_new", refresh),
                  !.tokenResponse = [access_token |-> "at_new", refresh_token |-> refresh],
                  !.isAuthenticated = TRUE])

ExchangeSucceeds(r, refresh) ==
    FetchUserInfoStart(
        [r EXCEPT !.ls = StoreTokenResponse(removeCodeVerifier(r.ls), "at_new", refresh),
                  !.tokenResponse = [access_token |-> "at_new", refresh_token |-> refresh]])

ExchangeResponse ==
    /\ detPc = "exchange"
    /\ ~MicrotaskPending
    /\ \/ /\ \E refresh \in {Absent, "rt_new"} : Apply(ExchangeSucceeds(Cur, refresh))
          /\ lastError' = NoError
       \/ \E e \in ErrorResponses :
              /\ Apply(Fail(Cur, ExchangeThrows(e).error.code))
              /\ lastError' = ExchangeThrows(e)
    /\ lastEvent' = IF detPc' = "done" THEN "det_done" ELSE "det"
    /\ lastQuery' = NoQuery
    /\ HostUnchanged

\* A validation that trusts the token when the introspection request failed.
ValidationActive_FailOpen(outcome) == outcome # "inactive"

\* validateAccessToken / validateRefreshToken after the introspection request:
\* the server's answer, and {active: false} from the catch block.
ValidationActive(outcome) == outcome = "active"

Introspected(r, type, outcome) ==
    [r EXCEPT !.introspection = [type |-> type, outcome |-> outcome]]

\* introspectToken throws for a failed request; the catch block of
\* validateAccessToken / validateRefreshToken logs the error and drops it.
IntrospectionError(outcome) ==
    IF outcome = "failed"
    THEN {IntrospectThrows(e) : e \in ErrorResponses}
    ELSE {NoError}

\* tryRefreshToken after validateRefreshToken.
RefreshValidated(r, active) ==
    IF ~active
    THEN Fail(r, "refresh_token_inactive")
    ELSE IF ~Truthy(getToken(r.ls, "refresh_token"))
         THEN Fail(r, "no_refresh_token")
         ELSE [r EXCEPT !.detPc = "refresh_token",
                        !.sent = @ \cup {"token:refresh_token"}]

RefreshIntrospectResponse ==
    /\ detPc = "refresh_introspect"
    /\ ~MicrotaskPending
    /\ \E outcome \in IntrospectionOutcomes :
           /\ Apply(RefreshValidated(Introspected(Cur, "refresh_token", outcome),
                                     ValidationActive(outcome)))
           /\ lastError' \in IntrospectionError(outcome)
    /\ lastEvent' = IF detPc' = "done" THEN "det_done" ELSE "det"
    /\ lastQuery' = NoQuery
    /\ HostUnchanged

\* tryRefreshToken stores the tokens, the .then of checkAuthState stores them
\* again and starts fetchUserInfo.
RefreshSucceeds(r, refresh) ==
    IF r.detBranch \in DirectCalls
    THEN [r EXCEPT !.ls = StoreTokenResponse(r.ls, "at_new", refresh),
                   !.tokenResponse = [access_token |-> "at_new", refresh_token |-> refresh],
                   !.detPc = "done"]
    ELSE FetchUserInfoStart(
             [r EXCEPT !.ls = StoreTokenResponse(StoreTokenResponse(r.ls, "at_new", refresh),
                                                 "at_new", refresh),
                       !.tokenResponse = [access_token |-> "at_new",
                                          refresh_token |-> refresh]])

RefreshTokenResponse ==
    /\ detPc = "refresh_token"
    /\ ~MicrotaskPending
    /\ \/ /\ \E refresh \in {Absent, "rt_new"} : Apply(RefreshSucceeds(Cur, refresh))
          /\ lastError' = NoError
       \/ \E e \in ErrorResponses :
              /\ Apply(Fail(Cur, RefreshThrows(e).error.code))
              /\ lastError' = RefreshThrows(e)
    /\ lastEvent' = IF detPc' = "done" THEN "det_done" ELSE "det"
    /\ lastQuery' = NoQuery
    /\ HostUnchanged

\* fetchUserInfo after validateAccessToken.
AccessValidated(r, active) ==
    IF ~active
    THEN Fail(r, "token_inactive")
    ELSE IF ~Truthy(getToken(r.ls, "access_token"))
         THEN Fail(r, "no_access_token")
         ELSE [r EXCEPT !.detPc = "userinfo", !.sent = @ \cup {"userinfo"}]

IntrospectResponse ==
    /\ detPc = "introspect"
    /\ ~MicrotaskPending
    /\ \E outcome \in IntrospectionOutcomes :
           /\ Apply(AccessValidated(Introspected(Cur, "access_token", outcome),
                                    ValidationActive(outcome)))
           /\ lastError' \in IntrospectionError(outcome)
    /\ lastEvent' = IF detPc' = "done" THEN "det_done" ELSE "det"
    /\ lastQuery' = NoQuery
    /\ HostUnchanged

\* Handlers that clean the URL in every branch.
UserInfoSucceeds_AlwaysStrips(r, data) ==
    CASE r.detBranch = "implicit" ->
             EndLoading([r EXCEPT !.user = data, !.userData = data,
                                  !.search = <<>>, !.historyReplaces = @ + 1])
      [] r.detBranch \in DirectCalls ->
             [r EXCEPT !.userData = data, !.detPc = "done"]
      [] OTHER ->
             EndLoading([r EXCEPT !.user = data, !.userData = data,
                                  !.isAuthenticated = TRUE,
                                  !.search = <<>>, !.historyReplaces = @ + 1])

\* The handlers that run when fetchUserInfo resolves with the profile.
UserInfoSucceeds(r, data) ==
    CASE r.detBranch = "code" ->
             EndLoading([r EXCEPT !.user = data, !.userData = data,
                                  !.isAuthenticated = TRUE,
                                  !.search = <<>>, !.historyReplaces = @ + 1])
      [] r.detBranch = "implicit" ->
             EndLoading([r EXCEPT !.user = data, !.userData = data])
      [] r.detBranch \in DirectCalls ->
             [r EXCEPT !.userData = data, !.detPc = "done"]
      [] OTHER ->
             EndLoading([r EXCEPT !.user = data, !.userData = data,
                                  !.isAuthenticated = TRUE])

UserInfoResponse ==
    /\ detPc = "userinfo"
    /\ ~MicrotaskPending
    /\ \/ /\ \E data \in Profiles : Apply(UserInfoSucceeds(Cur, data))
          /\ lastError' = NoError
       \/ \E e \in ErrorResponses :
              /\ Apply(Fail(Cur, UserInfoThrows(e).error.code))
              /\ lastError' = UserInfoThrows(e)
    /\ lastEvent' = "det_done"
    /\ lastQuery' = NoQuery
    /\ HostUnchanged

(***************************************************************************)
(* logout()                                                                *)
(***************************************************************************)
DetUnchanged ==
    UNCHANGED <<search, historyReplaces, detPc, detBranch, detError,
                detLoadingWrites, detLateWrites, introspection, tokenResponse,
                userData>>

\* logout() up to the logout request.
LogoutCall ==
    /\ constructed
    /\ detPc # "init"
    /\ logoutCalls < MaxLogouts
    /\ isLoading' = TRUE
    /\ sent' = sent \cup {"logout"}
    /\ logoutsInFlight' = logoutsInFlight + 1
    /\ logoutCalls' = logoutCalls + 1
    /\ lastEvent' = "logout_call"
    /\ lastQuery' = NoQuery
    /\ lastError' = NoError
    /\ DetUnchanged
    /\ UNCHANGED <<guard, constructed, authParams, state, user, isAuthenticated,
                   localStorage, location, loginPc, escaped>>

\* The local cleanup of logout(), run after the request settled either way.
LogoutCleanup(ok) ==
    /\ localStorage' = clearSession(localStorage)
    /\ isAuthenticated' = FALSE
    /\ user' = Null
    /\ isLoading' = FALSE
    /\ escaped' = escaped
    /\ lastEvent' = IF ok THEN "logout_ok" ELSE "logout_failed"

LogoutResponse ==
    /\ logoutsInFlight > 0
    /\ ~MicrotaskPending
    /\ \/ LogoutCleanup(TRUE) /\ lastError' = NoError
       \/ \E e \in ErrorResponses : LogoutCleanup(FALSE) /\ lastError' = LogoutThrows(e)
    /\ logoutsInFlight' = logoutsInFlight - 1
    /\ lastQuery' = NoQuery
    /\ DetUnchanged
    /\ UNCHANGED <<guard, constructed, authParams, state, location, sent, logoutCalls, loginPc>>

(***************************************************************************)
(* login()                                                                 *)
(***************************************************************************)
AuthUnchanged == UNCHANGED <<user, isAuthenticated, isLoading>>

\* A login() that navigates with a new state but does not store it.
LoginCall_KeepsOldState(i) ==
    /\ constructed
    /\ detPc # "init"
    /\ loginPc[i] = "idle"
    /\ \A j \in DOMAIN loginPc : j < i => loginPc[j] # "idle"
    /\ localStorage' = localStorage
    /\ loginPc' = [loginPc EXCEPT ![i] = IF authParams = "token" THEN "ready" ELSE "digest"]
    /\ lastEvent' = "login_call"
    /\ lastQuery' = NoQuery
    /\ lastError' = NoError
    /\ AuthUnchanged /\ DetUnchanged
    /\ UNCHANGED <<guard, constructed, authParams, state, location, sent,
                   logoutsInFlight, logoutCalls, escaped>>

\* login() up to the digest of generateCodeChallenge (code flow), or up to the
\* await of generateAuthUrl (implicit flow).
LoginCall(i) ==
    /\ constructed
    /\ detPc # "init"
    /\ loginPc[i] = "idle"
    /\ \A j \in DOMAIN loginPc : j < i => loginPc[j] # "idle"
    /\ localStorage' = setState(localStorage, FreshState(i))
    /\ loginPc' = [loginPc EXCEPT ![i] = IF authParams = "token" THEN "ready" ELSE "digest"]
    /\ lastEvent' = "login_call"
    /\ lastQuery' = NoQuery
    /\ lastError' = NoError
    /\ AuthUnchanged /\ DetUnchanged
    /\ UNCHANGED <<guard, constructed, authParams, state, location, sent,
                   logoutsInFlight, logoutCalls, escaped>>

\* A generateAuthUrl that stores the verifier before it awaits the digest.
LoginDigest_StoresVerifierEarly(i) ==
    /\ loginPc[i] = "digest"
    /\ ~MicrotaskPending
    /\ localStorage' = setCodeVerifier(localStorage, FreshVerifier(i))
    /\ \/ /\ location' = [state |-> FreshState(i), response_type |-> "code",
                          code_challenge |-> Challenge(FreshVerifier(i)),
                          code_challenge_method |-> "S256"]
          /\ loginPc' = [loginPc EXCEPT ![i] = "done"]
          /\ escaped' = escaped
          /\ lastEvent' = "login_nav"
       \/ /\ loginPc' = [loginPc EXCEPT ![i] = "failed"]
          /\ escaped' = escaped \cup {"login"}
          /\ lastEvent' = "login_failed"
          /\ location' = location
    /\ lastQuery' = NoQuery
    /\ lastError' = NoError
    /\ AuthUnchanged /\ DetUnchanged
    /\ UNCHANGED <<guard, constructed, authParams, state, sent, logoutsInFlight,
                   logoutCalls>>

\* The digest resolved: the verifier is stored, the URL built, the browser
\* navigated.  The digest rejected: login() rejects.
LoginDigest(i) ==
    /\ loginPc[i] = "digest"
    /\ ~MicrotaskPending
    /\ \/ /\ localStorage' = setCodeVerifier(localStorage, FreshVerifier(i))
          /\ location' = [state |-> FreshState(i), response_type |-> "code",
                          code_challenge |-> Challenge(FreshVerifier(i)),
                          code_challenge_method |-> "S256"]
          /\ loginPc' = [loginPc EXCEPT ![i] = "done"]
          /\ escaped' = escaped
          /\ lastEvent' = "login_nav"
       \/ /\ loginPc' = [loginPc EXCEPT ![i] = "failed"]
          /\ escaped' = escaped \cup {"login"}
          /\ lastEvent' = "login_failed"
          /\ UNCHANGED <<localStorage, location>>
    /\ lastQuery' = NoQuery
    /\ lastError' = NoError
    /\ AuthUnchanged /\ DetUnchanged
    /\ UNCHANGED <<guard, constructed, authParams, state, sent, logoutsInFlight, logoutCalls>>

\* The implicit flow builds the URL without a challenge.  The continuations of
\* several calls run in the order of the calls.
LoginNavigate(i) ==
    /\ loginPc[i] = "ready"
    /\ \A j \in DOMAIN loginPc : j < i => loginPc[j] # "ready"
    /\ location' = [state |-> FreshState(i), response_type |-> "token",
                    code_challenge |-> Absent, code_challenge_method |-> Absent]
    /\ loginPc' = [loginPc EXCEPT ![i] = "done"]
    /\ lastEvent' = "login_nav"
    /\ lastQuery' = NoQuery
    /\ lastError' = NoError
    /\ AuthUnchanged /\ DetUnchanged
    /\ UNCHANGED <<guard, constructed, authParams, state, localStorage, sent,
                   logoutsInFlight, logoutCalls, escaped>>

(***************************************************************************)
(* hasRole(role, requireAllRoles)                                          *)
(***************************************************************************)
\* A hasRole that asks the server about the access token first.
HasRoleCall_Revalidates ==
    /\ constructed
    /\ \E role \in RoleArgs, requireAllRoles \in BOOLEAN :
           lastQuery' = [asked |-> TRUE, role |-> role,
                         requireAllRoles |-> requireAllRoles,
                         result |-> hasRole(user, role, requireAllRoles)]
    /\ lastEvent' = "hasRole"
    /\ lastError' = NoError
    /\ sent' = sent \cup {"introspect:access_token"}
    /\ isLoading' = TRUE
    /\ DetUnchanged
    /\ UNCHANGED <<guard, constructed, authParams, state, user, isAuthenticated,
                   localStorage, location, logoutsInFlight, logoutCalls, loginPc, escaped>>

HasRoleCall ==
    /\ constructed
    /\ \E role \in RoleArgs, requireAllRoles \in BOOLEAN :
           lastQuery' = [asked |-> TRUE, role |-> role,
                         requireAllRoles |-> requireAllRoles,
                         result |-> hasRole(user, role, requireAllRoles)]
    /\ lastEvent' = "hasRole"
    /\ lastError' = NoError
    /\ AuthUnchanged /\ DetUnchanged
    /\ UNCHANGED <<guard, constructed, authParams, state, localStorage, location, sent,
                   logoutsInFlight, logoutCalls, loginPc, escaped>>

Next ==
    \/ Install
    \/ DetRejected
    \/ ExchangeResponse
    \/ RefreshIntrospectResponse
    \/ RefreshTokenResponse
    \/ IntrospectResponse
    \/ UserInfoResponse
    \/ LogoutCall
    \/ LogoutResponse
    \/ \E i \in Logins : LoginCall(i)
    \/ \E i \in Logins : LoginDigest(i)
    \/ \E i \in Logins : LoginNavigate(i)

\* The state machine: page load, startup determination, login() and logout().
Spec == Init /\ [][Next]_vars

\* hasRole as a query: every user record and both values of isAuthenticated
\* (Spec reaches each combination), every role argument.
InitRoles ==
    /\ constructed = TRUE
    /\ user \in Profiles \cup {Null}
    /\ isAuthenticated \in BOOLEAN
    /\ isLoading \in BOOLEAN
    /\ localStorage = [k \in Keys |-> Absent]
    /\ search = <<>>
    /\ authParams = Absent
    /\ escaped = {}
    /\ state = "g0"
    /\ historyReplaces = 0
    /\ location = NoNav
    /\ detPc = "done"
    /\ detBranch = "none"
    /\ detError = "none"
    /\ detLoadingWrites = 0
    /\ detLateWrites = 0
    /\ sent = {}
    /\ introspection = NoIntrospection
    /\ tokenResponse = NoTokens
    /\ userData = Null
    /\ logoutsInFlight = 0
    /\ logoutCalls = 0
    /\ loginPc = [i \in Logins |-> "idle"]
    /\ lastEvent = "none"
    /\ lastQuery = NoQuery
    /\ lastError = NoError
    /\ guard = NoGuard

NextRoles == HasRoleCall

SpecRoles == InitRoles /\ [][NextRoles]_vars

(***************************************************************************)
(* Ordinary page loads with every kind of stored access token.             *)
(***************************************************************************)
StoredTokens ==
    {Absent, "", "at_valid", "at_expired", "at_now", "at_zero", "at_noexp",
     "at_str_valid", "at_str_expired", "at_str_zero", "at_str_word",
     "at_str_empty", "at_garbage"}

InitToken ==
    /\ localStorage \in {ls \in [Keys -> StoredTokens \cup {"rt0"}] :
                            /\ ls["access_token"] \in StoredTokens
                            /\ ls["refresh_token"] \in {Absent, "rt0"}
                            /\ ls["state"] = Absent
                            /\ ls["pkce_code_verifier"] = Absent}
    /\ search = <<>>
    /\ authParams = Absent
    /\ constructed = ~isTokenValidThrows(localStorage)
    /\ escaped = IF constructed THEN {} ELSE {"constructor"}
    /\ user = Null
    /\ isAuthenticated = (constructed /\ isTokenValid(localStorage))
    /\ isLoading = TRUE
    /\ state = "g0"
    /\ historyReplaces = 0
    /\ location = NoNav
    /\ detPc = "init"
    /\ detBranch = "none"
    /\ detError = "none"
    /\ detLoadingWrites = 0
    /\ detLateWrites = 0
    /\ sent = {}
    /\ introspection = NoIntrospection
    /\ tokenResponse = NoTokens
    /\ userData = Null
    /\ logoutsInFlight = 0
    /\ logoutCalls = 0
    /\ loginPc = [i \in Logins |-> "idle"]
    /\ lastEvent = "none"
    /\ lastQuery = NoQuery
    /\ lastError = NoError
    /\ guard = NoGuard

NextToken ==
    \/ Install
    \/ DetRejected
    \/ RefreshIntrospectResponse
    \/ RefreshTokenResponse
    \/ IntrospectResponse
    \/ UserInfoResponse

SpecToken == InitToken /\ [][NextToken]_vars

(***************************************************************************)
(* login() with nothing else in flight: the page has settled (a callback   *)
(* with a foreign state was rejected, which leaves the store as it was),   *)
(* and login() is called, possibly again before the first call navigated.  *)
(***************************************************************************)
MaxOverlappingLogins == 2

OverlappingLogins == 1..MaxOverlappingLogins

InitLogin ==
    /\ constructed = TRUE
    /\ localStorage \in {ls \in InitialStores :
                            StoreWellFormed(ls) /\ ~isTokenValidThrows(ls)}
    /\ authParams \in ResponseTypes
    /\ state = IF Truthy(getState(localStorage)) THEN getState(localStorage) ELSE "g0"
    /\ search = << <<"state", "sX">>, <<"code", "c1">>, <<"access_token", "at_url">>,
                   <<"refresh_token", "rt_url">> >>
    /\ user = Null
    /\ isAuthenticated = FALSE
    /\ isLoading = FALSE
    /\ detPc = "done"
    /\ detBranch = "mismatch"
    /\ detError = "none"
    /\ detLoadingWrites = 1
    /\ detLateWrites = 0
    /\ historyReplaces = 0
    /\ location = NoNav
    /\ sent = {}
    /\ introspection = NoIntrospection
    /\ tokenResponse = NoTokens
    /\ userData = Null
    /\ logoutsInFlight = 0
    /\ logoutCalls = 0
    /\ loginPc = [i \in OverlappingLogins |-> "idle"]
    /\ escaped = {}
    /\ lastEvent = "det_done"
    /\ lastQuery = NoQuery
    /\ lastError = NoError
    /\ guard = NoGuard

NextLogin ==
    \/ \E i \in OverlappingLogins : LoginCall(i)
    \/ \E i \in OverlappingLogins : LoginDigest(i)
    \/ \E i \in OverlappingLogins : LoginNavigate(i)

SpecLogin == InitLogin /\ [][NextLogin]_vars

(***************************************************************************)
(* The server client called on its own: fetchUserInfo and tryRefreshToken  *)
(* on any store, with logout() as the concurrent writer of the store.      *)
(***************************************************************************)
InitClient ==
    /\ constructed = TRUE
    /\ localStorage \in {ls \in InitialStores : StoreWellFormed(ls)}
    /\ detBranch \in DirectCalls
    /\ detPc = "init"
    /\ user = Null
    /\ isAuthenticated = FALSE
    /\ isLoading = FALSE
    /\ search = <<>>
    /\ authParams = Absent
    /\ escaped = {}
    /\ state = "g0"
    /\ historyReplaces = 0
    /\ location = NoNav
    /\ detError = "none"
    /\ detLoadingWrites = 0
    /\ detLateWrites = 0
    /\ sent = {}
    /\ introspection = NoIntrospection
    /\ tokenResponse = NoTokens
    /\ userData = Null
    /\ logoutsInFlight = 0
    /\ logoutCalls = 0
    /\ loginPc = [i \in Logins |-> "idle"]
    /\ lastEvent = "none"
    /\ lastQuery = NoQuery
    /\ lastError = NoError
    /\ guard = NoGuard

\* The call, up to the first suspension point of the function.
ClientCall ==
    /\ detPc = "init"
    /\ detBranch \in DirectCalls
    /\ Apply(IF detBranch = "fetchUserInfo"
             THEN FetchUserInfoStart(Cur)
             ELSE TryRefreshTokenStart(Cur))
    /\ lastEvent' = "det"
    /\ lastQuery' = NoQuery
    /\ lastError' = NoError
    /\ HostUnchanged

NextClient ==
    \/ ClientCall
    \/ DetRejected
    \/ RefreshIntrospectResponse
    \/ RefreshTokenResponse
    \/ IntrospectResponse
    \/ UserInfoResponse
    \/ LogoutCall
    \/ LogoutResponse

SpecClient == InitClient /\ [][NextClient]_vars

(***************************************************************************)
MaxPolls == 2

\* The navigations the guards are checked with.
GuardRoutes ==
    { [kind |-> "auth", role |-> NoRole, requireAllRoles |-> "undefined",
       returnUrl |-> Absent],
      [kind |-> "auth", role |-> [kind |-> "string", names |-> <<"admin">>],
       requireAllRoles |-> "undefined", returnUrl |-> Absent],
      [kind |-> "auth", role |-> [kind |-> "string", names |-> <<"">>],
       requireAllRoles |-> "undefined", returnUrl |-> Absent],
      [kind |-> "auth", role |-> [kind |-> "array", names |-> <<"admin", "moderator">>],
       requireAllRoles |-> "true", returnUrl |-> Absent],
      [kind |-> "auth", role |-> [kind |-> "array", names |-> <<"admin", "moderator">>],
       requireAllRoles |-> "false", returnUrl |-> Absent],
      [kind |-> "auth", role |-> [kind |-> "array", names |-> <<>>],
       requireAllRoles |-> "undefined", returnUrl |-> Absent],
      [kind |-> "role", role |-> [kind |-> "string", names |-> <<"admin">>],
       requireAllRoles |-> "undefined", returnUrl |-> Absent],
      [kind |-> "role", role |-> [kind |-> "array", names |-> <<"admin", "moderator">>],
       requireAllRoles |-> "true", returnUrl |-> Absent],
      [kind |-> "login", role |-> NoRole, requireAllRoles |-> "undefined",
       returnUrl |-> Absent],
      [kind |-> "login", role |-> NoRole, requireAllRoles |-> "undefined",
       returnUrl |-> ""],
      [kind |-> "login", role |-> NoRole, requireAllRoles |-> "undefined",
       returnUrl |-> "/back"] }

RequireAllRoles_Ignored(route) == FALSE

\* to.meta.requireAllRoles || false, and the default value of the parameter.
RequireAllRoles(route) == route.requireAllRoles = "true"

\* app.config.globalProperties[BLITZWARE_TOKEN] is set by install().
AuthInstalled == constructed /\ detPc # "init"

\* A loop that gives up after its first timer.
StillLoading_TimesOut(polls) == isLoading /\ polls < 1

\* while (unref(auth.isLoading)) await the 50 ms timer.
StillLoading(polls) == isLoading

\* createGuardHandler after the loop: the redirect, or "next()" for true.
createGuardHandler(role, requireAllRoles) ==
    IF ~isAuthenticated
    THEN "login"
    ELSE IF ~RoleFalsy(role) /\ ~hasRole(user, role, requireAllRoles)
         THEN "access-denied"
         ELSE "next()"

\* The arguments createGuardHandler passes to hasRole, if it calls it.
HandlerAsks(role, requireAllRoles) ==
    IF isAuthenticated /\ ~RoleFalsy(role)
    THEN [asked |-> TRUE, role |-> role, requireAllRoles |-> requireAllRoles]
    ELSE NoAsk

LoginGuardDecision_NoReturnUrl(returnUrl) ==
    IF ~isAuthenticated THEN "next()" ELSE "/dashboard"

\* createBlitzWareLoginGuard after the loop.
LoginGuardDecision(returnUrl) ==
    IF ~isAuthenticated
    THEN "next()"
    ELSE IF Truthy(returnUrl) THEN returnUrl ELSE "/dashboard"

\* A guard with a finally block that calls next() once more.
GuardDecides_CallsNextAgain(route, polls) ==
    /\ guard' = [pc |-> "done", route |-> route, polls |-> polls,
                 next |-> "next()",
                 nextCalls |-> guard.nextCalls + 2,
                 hasRoleArgs |-> IF route.kind = "login"
                                 THEN NoAsk
                                 ELSE HandlerAsks(route.role, RequireAllRoles(route))]
    /\ lastEvent' = "guard_decided"

\* The guard leaves its loop and calls next.
GuardDecides(route, polls) ==
    /\ guard' = [pc |-> "done", route |-> route, polls |-> polls,
                 nextCalls |-> guard.nextCalls + 1,
                 next |-> IF route.kind = "login"
                          THEN LoginGuardDecision(route.returnUrl)
                          ELSE createGuardHandler(route.role, RequireAllRoles(route)),
                 hasRoleArgs |-> IF route.kind = "login"
                                 THEN NoAsk
                                 ELSE HandlerAsks(route.role, RequireAllRoles(route))]
    /\ lastEvent' = "guard_decided"

\* A catch block that sends every navigation to the login route.
GuardCatches_AlwaysLogin(route) ==
    /\ guard' = [pc |-> "done", route |-> route, polls |-> 0, next |-> "login",
                 nextCalls |-> guard.nextCalls + 1, hasRoleArgs |-> NoAsk]
    /\ lastEvent' = "guard_caught"

\* The catch block of the guard: reading auth.isLoading of undefined threw.
GuardCatches(route) ==
    /\ guard' = [pc |-> "done", route |-> route, polls |-> 0,
                 next |-> IF route.kind = "login" THEN "next()" ELSE "login",
                 nextCalls |-> guard.nextCalls + 1, hasRoleArgs |-> NoAsk]
    /\ lastEvent' = "guard_caught"

GuardUnchanged ==
    /\ AuthUnchanged /\ DetUnchanged
    /\ UNCHANGED <<constructed, authParams, state, localStorage, location, sent,
                   logoutsInFlight, logoutCalls, loginPc, escaped, lastQuery>>
    /\ lastError' = NoError

\* The router calls the guard for a navigation.
GuardCall ==
    /\ guard.pc = "idle"
    /\ \E route \in GuardRoutes :
           IF ~AuthInstalled
           THEN GuardCatches(route)
           ELSE IF StillLoading(0)
                THEN /\ guard' = [guard EXCEPT !.pc = "waiting", !.route = route]
                     /\ lastEvent' = "guard_call"
                ELSE GuardDecides(route, 0)
    /\ GuardUnchanged

\* The 50 ms timer of the loop fired.
GuardPoll ==
    /\ guard.pc = "waiting"
    /\ ~MicrotaskPending
    /\ IF StillLoading(guard.polls)
       THEN /\ guard.polls < MaxPolls
            /\ guard' = [guard EXCEPT !.polls = @ + 1]
            /\ lastEvent' = "guard_poll"
       ELSE GuardDecides(guard.route, guard.polls)
    /\ GuardUnchanged

\* Page loads for the guard runs: an ordinary visit, a code callback and an
\* implicit callback, each with the state the page holds.
InitGuard ==
    /\ Init
    /\ authParams = "code"
    /\ getState(localStorage) = "s0"
    /\ getCodeVerifier(localStorage) = "v0"
    /\ \/ search = <<>>
       \/ search = << <<"state", "s0">>, <<"code", "c1">> >>
       \/ search = << <<"state", "s0">>, <<"access_token", "at_url">> >>

\* The startup determination, logout() and one navigation handled by a guard.
\* login() is left out: it writes the state and verifier keys and the browser
\* location, none of which a guard reads.
NextGuard ==
    \/ Install
    \/ DetRejected
    \/ ExchangeResponse
    \/ RefreshIntrospectResponse
    \/ RefreshTokenResponse
    \/ IntrospectResponse
    \/ UserInfoResponse
    \/ LogoutCall
    \/ LogoutResponse
    \/ GuardCall
    \/ GuardPoll

SpecGuard == InitGuard /\ [][NextGuard]_vars

\* Every kind of page load, for a page that holds the state "s0": login()
\* is not called, so the response type it would use is fixed.
InitLive ==
    /\ Init
    /\ authParams = "code"
    /\ getState(localStorage) = "s0"

\* The startup determination with one navigation handled by a guard, and
\* neither login() nor logout().
NextLive ==
    \/ Install
    \/ DetRejected
    \/ ExchangeResponse
    \/ RefreshIntrospectResponse
    \/ RefreshTokenResponse
    \/ IntrospectResponse
    \/ UserInfoResponse
    \/ GuardCall
    \/ GuardPoll

\* The plugin is installed, queued microtasks run, every request of the
\* determination is answered and the 50 ms timer of a waiting guard fires.
Fairness ==
    /\ WF_vars(Install)
    /\ WF_vars(DetRejected)
    /\ WF_vars(ExchangeResponse)
    /\ WF_vars(RefreshIntrospectResponse)
    /\ WF_vars(RefreshTokenResponse)
    /\ WF_vars(IntrospectResponse)
    /\ WF_vars(UserInfoResponse)
    /\ WF_vars(GuardPoll)

SpecLive == InitLive /\ [][NextLive]_vars /\ Fairness

TypeOK ==
    /\ constructed \in BOOLEAN
    /\ isLoading \in BOOLEAN
    /\ isAuthenticated \in BOOLEAN
    /\ user \in Profiles \cup {Null}
    /\ logoutsInFlight \in 0..MaxLogouts
    /\ detLoadingWrites \in 0..2
    /\ detLateWrites \in 0..1
    /\ guard.pc \in {"idle", "waiting", "done"}
    /\ guard.polls \in 0..MaxPolls
    /\ guard.nextCalls \in 0..1
    /\ introspection.outcome \in IntrospectionOutcomes \cup {"none"}
    /\ lastError.request \in {"none", "exchange", "refresh", "userinfo", "introspect", "logout"}
    /\ lastError.response \in ErrorResponses

(***************************************************************************)
(* Properties.                                                             *)
(***************************************************************************)
\* The host application has called neither login() nor logout().
NoHostOps == logoutCalls = 0 /\ \A i \in DOMAIN loginPc : loginPc[i] = "idle"

\* The requests only the startup determination sends.
DetRequests ==
    {"token:authorization_code", "token:refresh_token", "introspect:access_token",
     "introspect:refresh_token", "userinfo"}

\* C1: isLoading is true right after construction; with neither login() nor
\* logout() called, the startup determination writes isLoading exactly once,
\* true -> false, when the branch it took has reached its outcome, and never
\* before: until then isLoading is true and unwritten, from then on it is false
\* with that single write.
C1_LoadingEndsOnce ==
    (constructed /\ NoHostOps) =>
        IF detPc = "done"
        THEN ~isLoading /\ detLoadingWrites = 1
        ELSE isLoading /\ detLoadingWrites = 0

\* C1 witness: the implicit callback whose user-info fetch failed has ended.
C1_Witness ==
    /\ constructed /\ NoHostOps
    /\ detPc = "done" /\ detBranch = "implicit" /\ detError = "userinfo_failed"
    /\ ~isLoading /\ detLoadingWrites = 1

\* C2 (as claimed): at every suspension point, also with logout() overlapping
\* the startup determination, a non-null user implies isAuthenticated.
C2_UserImpliesAuthenticated == user # Null => isAuthenticated

\* The page was loaded on a callback URL whose state is not the held state.
MismatchVisit ==
    /\ constructed
    /\ detPc # "init"
    /\ hasAuthParams(search)
    /\ urlGet(search, "state") # state

\* C3: a callback visit with a state other than the held one is rejected at
\* once: isAuthenticated is false, isLoading is false (unless a logout() set it
\* again), the determination sent no request, and no token of the URL is in
\* the store.
C3_MismatchRejected ==
    MismatchVisit =>
        /\ detPc = "done" /\ detBranch = "mismatch"
        /\ ~isAuthenticated
        /\ user = Null
        /\ logoutsInFlight = 0 => ~isLoading
        /\ sent \cap DetRequests = {}
        /\ \A type \in {"access_token", "refresh_token"} :
               Truthy(urlGet(search, type)) =>
                   getToken(localStorage, type) # urlGet(search, type)

\* C3 witness: a mismatching callback that carries tokens was rejected while a
\* locally valid token was stored (the constructor had set isAuthenticated).
C3_Witness ==
    /\ MismatchVisit /\ detBranch = "mismatch" /\ NoHostOps
    /\ Truthy(urlGet(search, "access_token"))
    /\ isTokenValid(localStorage)
    /\ ~isAuthenticated /\ ~isLoading

C5_MissingVerifier ==
    constructed =>
        /\ (/\ detBranch = "code" /\ lastEvent = "det"
            /\ detPc \in {"exchange", "rejected"}
            /\ ~Truthy(getCodeVerifier(localStorage)))
           => (detPc = "rejected" /\ detError = "missing_code_verifier")
        /\ detError = "missing_code_verifier" =>
               /\ detBranch = "code"
               /\ detPc \in {"rejected", "done"}
               /\ sent \cap DetRequests = {}
               /\ lastEvent = "det_done" =>
                      ~isAuthenticated /\ user = Null /\ ~isLoading

\* C5 witness: the determination ended on the missing verifier.
C5_Witness ==
    /\ constructed /\ detError = "missing_code_verifier"
    /\ detPc = "done" /\ lastEvent = "det_done"
    /\ ~isAuthenticated /\ ~isLoading

\* C6: whenever the code branch ends in a failure, at that moment the store
\* holds none of the four keys, isAuthenticated is false, user is null and
\* isLoading is false.
C6_CodeFailureClears ==
    (constructed /\ detBranch = "code" /\ lastEvent = "det_done"
        /\ detError # "none") =>
        /\ StoreEmpty(localStorage)
        /\ ~isAuthenticated /\ user = Null /\ ~isLoading

\* C6 witness: the user-info fetch failed after the exchange had stored tokens.
C6_Witness ==
    /\ constructed /\ detBranch = "code" /\ lastEvent = "det_done"
    /\ detError = "userinfo_failed"
    /\ tokenResponse.access_token = "at_new"
    /\ StoreEmpty(localStorage)

\* What holds when any logout() completes.
LogoutCompletes ==
    lastEvent \in {"logout_ok", "logout_failed"} =>
        /\ ~isAuthenticated /\ user = Null /\ ~isLoading
        /\ StoreEmpty(localStorage)
        /\ "logout" \notin escaped

\* C7 (as claimed): every logout() raises nothing, at its completion
\* isAuthenticated is false, user null, isLoading false and the store empty,
\* and isLoading is true from the start of the call until that completion.
C7_LogoutClearsAndLoads ==
    /\ LogoutCompletes
    /\ logoutsInFlight > 0 => isLoading

\* C8 (as claimed): in every reachable state with isAuthenticated false,
\* hasRole is false for every role argument and both values of requireAllRoles.
C8_UnauthenticatedHasNoRole ==
    (constructed /\ ~isAuthenticated) =>
        \A role \in RoleArgs, requireAllRoles \in BOOLEAN :
            ~hasRole(user, role, requireAllRoles)

\* The roles of the current user, as a set.
RoleSet(u) ==
    IF u # Null /\ UserRoles(u).defined
    THEN {UserRoles(u).list[i] : i \in DOMAIN UserRoles(u).list}
    ELSE {}

Requested(q) == {q.role.names[i] : i \in DOMAIN q.role.names}

\* C9 (as claimed): hasRole with an empty role array, or with no role
\* argument, returns false for every user and both values of requireAllRoles.
C9_EmptyRolesFalse ==
    (lastQuery.asked /\ lastQuery.role.names = <<>>) => ~lastQuery.result

\* The result the claim C10 gives for a call with roles requested.
ExpectedRoleResult(q) ==
    IF q.role.kind = "array" /\ q.requireAllRoles
    THEN Requested(q) \subseteq RoleSet(user)
    ELSE Requested(q) \cap RoleSet(user) # {}

\* C10 (as claimed): for a non-empty role list, OR semantics without
\* requireAllRoles and AND semantics with it; for a single string, membership;
\* exact string equality throughout.
C10_RoleSemantics ==
    (lastQuery.asked /\ user # Null /\ lastQuery.role.names # <<>>) =>
        lastQuery.result = ExpectedRoleResult(lastQuery)

\* C10 (amended): the same, for a non-empty role list and for a single
\* non-empty string; the empty string counts as no role argument.
C10_RoleSemanticsNonEmptyString ==
    (/\ lastQuery.asked /\ user # Null /\ lastQuery.role.names # <<>>
     /\ ~(lastQuery.role.kind = "string" /\ lastQuery.role.names[1] = "")) =>
        lastQuery.result = ExpectedRoleResult(lastQuery)

\* C10 witness: an AND query over two roles answered true.
C10_Witness ==
    /\ lastQuery.asked /\ lastQuery.role.kind = "array"
    /\ Len(lastQuery.role.names) = 2 /\ lastQuery.requireAllRoles
    /\ lastQuery.result

\* A guard left its loop in the last step: what it read is the current state.
GuardDecided(kind) ==
    /\ lastEvent = "guard_decided"
    /\ guard.pc = "done"
    /\ guard.route.kind = kind

\* C11: when the protected-route guard decides, isLoading is false; it
\* redirects to login if isAuthenticated is false, to access-denied if
\* isAuthenticated is true, a (non-falsy) role is declared and hasRole of it is
\* false, and allows otherwise; hasRole is called with exactly the role and
\* requireAllRoles of the route's meta, requireAllRoles defaulting to false.
C11_ProtectedGuardVerdict ==
    GuardDecided("auth") =>
        LET role == guard.route.role
            all == (guard.route.requireAllRoles = "true")
            given == role.kind # "none" /\ role.names # <<"">>
        IN /\ ~isLoading
           /\ guard.next = (IF ~isAuthenticated
                            THEN "login"
                            ELSE IF given /\ ~hasRole(user, role, all)
                                 THEN "access-denied"
                                 ELSE "next()")
           /\ guard.hasRoleArgs.asked =>
                  /\ guard.hasRoleArgs.role = role
                  /\ guard.hasRoleArgs.requireAllRoles = all
           /\ (isAuthenticated /\ given) => guard.hasRoleArgs.asked

\* C11 witness: a route that requires both roles denied an admin who is not a
\* moderator.
C11_Witness ==
    /\ GuardDecided("auth")
    /\ guard.route.requireAllRoles = "true"
    /\ isAuthenticated /\ user = "u_admin"
    /\ guard.next = "access-denied"

\* C12: a guard that has not seen isLoading false has not called next and is
\* still polling, however often its timer fired; a guard that decides does so
\* in a step in which isLoading is false, on the isAuthenticated of that step.
C12_NoDecisionWhileLoading ==
    /\ guard.pc = "waiting" => guard.next = "<not called>"
    /\ lastEvent \in {"guard_call", "guard_poll"} =>
           isLoading /\ guard.pc = "waiting"
    /\ (lastEvent = "guard_decided" /\ guard.route.kind \in {"auth", "login"}) =>
           /\ ~isLoading
           /\ guard.pc = "done" /\ guard.next # "<not called>"
           /\ guard.route.kind = "auth" => (guard.next = "login" <=> ~isAuthenticated)
           /\ guard.route.kind = "login" => (guard.next = "next()" <=> ~isAuthenticated)

\* C12 witness: the login guard decided after its timer had fired more than
\* once while isLoading was true.
C12_Witness ==
    /\ GuardDecided("login")
    /\ guard.polls > 1
    /\ isAuthenticated

\* C13: when the login-page guard decides, isLoading is false; it allows the
\* navigation if isAuthenticated is false, and otherwise redirects to the
\* returnUrl of the query if that is present and non-empty, else to /dashboard.
C13_LoginGuardVerdict ==
    GuardDecided("login") =>
        /\ ~isLoading
        /\ ~isAuthenticated => guard.next = "next()"
        /\ isAuthenticated =>
               guard.next = (IF guard.route.returnUrl \notin {Absent, ""}
                             THEN guard.route.returnUrl
                             ELSE "/dashboard")

\* C13 witness: an authenticated visitor of the login page was sent back to
\* the returnUrl.
C13_Witness ==
    /\ GuardDecided("login")
    /\ isAuthenticated
    /\ guard.route.returnUrl = "/back" /\ guard.next = "/back"

\* C14: a guard called while no auth instance is on the app (the read of its
\* isLoading throws) ends at once: the protected-route guard and the role
\* guard redirect to login, the login-page guard allows, nothing escapes.
C14_GuardErrorsAreCaught ==
    (guard.pc # "idle" /\ (~constructed \/ detPc = "init")) =>
        /\ guard.pc = "done"
        /\ guard.next = (IF guard.route.kind = "login" THEN "next()" ELSE "login")
        /\ ~guard.hasRoleArgs.asked
        /\ "guard" \notin escaped

\* C14 witness: the login-page guard ran on an app whose auth object could
\* not be constructed.
C14_Witness ==
    /\ ~constructed
    /\ lastEvent = "guard_caught"
    /\ guard.route.kind = "login" /\ guard.next = "next()"

\* fetchUserInfo was called in the last step.
FetchUserInfoCalled ==
    /\ detBranch = "fetchUserInfo"
    /\ lastEvent = "det"
    /\ detPc \in {"rejected", "introspect"}

\* What holds of the two failures of fetchUserInfo whatever the store.
FetchUserInfoFailures ==
    detBranch = "fetchUserInfo" =>
        /\ (introspection.outcome = "inactive") =>
               (detPc = "done" /\ detError = "token_inactive")
        /\ detError \in {"no_access_token", "token_inactive"} =>
               "userinfo" \notin sent

\* C15 (as claimed): fetchUserInfo called with no access token in the store
\* fails with no_access_token; with a token that introspection reports not
\* active it fails with token_inactive; neither sends a userinfo request.
C15_FetchUserInfoErrors ==
    /\ FetchUserInfoFailures
    /\ (FetchUserInfoCalled /\ ~Truthy(getToken(localStorage, "access_token"))) =>
           (detPc = "rejected" /\ detError = "no_access_token")

\* tryRefreshToken learnt in this step that its refresh token is not active.
RefreshFoundInactive ==
    /\ detBranch = "tryRefreshToken"
    /\ detPc = "refresh_introspect"
    /\ introspection'.outcome = "inactive"

\* C16: tryRefreshToken sends its token request only after an introspection of
\* the refresh token that answered active; when the server reports the token
\* inactive the call fails with refresh_token_inactive, no token request is or
\* was sent, and the step leaves the stored access and refresh token alone.
C16_RefreshValidatesFirst ==
    /\ [](detBranch = "tryRefreshToken" =>
            /\ "token:refresh_token" \in sent =>
                   /\ "introspect:refresh_token" \in sent
                   /\ introspection = [type |-> "refresh_token", outcome |-> "active"]
            /\ introspection.outcome = "inactive" =>
                   /\ detPc = "done" /\ detError = "refresh_token_inactive"
                   /\ "token:refresh_token" \notin sent)
    /\ [][RefreshFoundInactive =>
            /\ getToken(localStorage', "access_token") = getToken(localStorage, "access_token")
            /\ getToken(localStorage', "refresh_token") = getToken(localStorage, "refresh_token")
            /\ detError' = "refresh_token_inactive"]_vars

\* C16 witness: a refresh ended on an inactive refresh token, both tokens are
\* still in the store.
C16_Witness ==
    /\ detBranch = "tryRefreshToken" /\ lastEvent = "det_done"
    /\ introspection = [type |-> "refresh_token", outcome |-> "inactive"]
    /\ detError = "refresh_token_inactive"
    /\ getToken(localStorage, "access_token") = "at_expired"
    /\ getToken(localStorage, "refresh_token") = "rt0"

\* tryRefreshToken receives a successful token response in this step.
RefreshStepSucceeds ==
    /\ detBranch = "tryRefreshToken"
    /\ detPc = "refresh_token" /\ detPc' = "done"
    /\ detError' = "none"

\* A step of tryRefreshToken itself.
RefreshStep ==
    /\ detBranch = "tryRefreshToken"
    /\ detPc' # detPc

\* C17: the step that completes a successful refresh stores the access token
\* of the response, stores the refresh token of the response if it carries
\* one and otherwise keeps the stored one; no step of the refresh changes the
\* state or pkce_code_verifier key.
C17_RefreshStoresTokens ==
    [][/\ RefreshStepSucceeds =>
            /\ Truthy(tokenResponse'.access_token)
            /\ getToken(localStorage', "access_token") = tokenResponse'.access_token
            /\ getToken(localStorage', "refresh_token") =
                   (IF Truthy(tokenResponse'.refresh_token)
                    THEN tokenResponse'.refresh_token
                    ELSE getToken(localStorage, "refresh_token"))
       /\ RefreshStep =>
            /\ getState(localStorage') = getState(localStorage)
            /\ getCodeVerifier(localStorage') = getCodeVerifier(localStorage)]_vars

\* C17 witness: a refresh succeeded without a rotated refresh token; the old
\* one, the state and the verifier are still stored.
C17_Witness ==
    /\ detBranch = "tryRefreshToken" /\ lastEvent = "det_done"
    /\ detError = "none"
    /\ tokenResponse = [access_token |-> "at_new", refresh_token |-> Absent]
    /\ getToken(localStorage, "access_token") = "at_new"
    /\ getToken(localStorage, "refresh_token") = "rt0"
    /\ getState(localStorage) = "s0" /\ getCodeVerifier(localStorage) = "v0"

OrdinaryVisit ==
    /\ constructed /\ NoHostOps
    /\ detPc # "init"
    /\ detBranch \notin {"mismatch", "code", "implicit", "neither"}

\* install() ran in the last step: the store is the one the page loaded with.
JustInstalled ==
    /\ detPc \in {"introspect", "refresh_introspect", "rejected"}
    /\ introspection = NoIntrospection
    /\ tokenResponse = NoTokens

\* C19: on an ordinary visit with no login() or logout(), a locally unexpired
\* access token starts the user-info fetch, an absent or expired one starts
\* the refresh, whose success is followed by the user-info fetch; when the
\* determination has ended isLoading is false and either isAuthenticated is
\* true, user non-null and an access token stored, or isAuthenticated is
\* false, user null and the store holds none of its four keys.
C19_OrdinaryVisit ==
    OrdinaryVisit =>
        /\ detBranch \in {"valid", "refresh"}
        /\ JustInstalled =>
               IF isTokenValid(localStorage)
               THEN detBranch = "valid" /\ detPc = "introspect"
               ELSE detBranch = "refresh" /\ detPc \in {"refresh_introspect", "rejected"}
        /\ detBranch = "refresh" =>
               /\ "introspect:access_token" \in sent <=> tokenResponse # NoTokens
               /\ tokenResponse # NoTokens => "token:refresh_token" \in sent
        /\ detPc # "done" => isLoading
        /\ detPc = "done" =>
               /\ ~isLoading
               /\ \/ /\ isAuthenticated /\ user # Null
                     /\ Truthy(getToken(localStorage, "access_token"))
                  \/ /\ ~isAuthenticated /\ user = Null
                     /\ StoreEmpty(localStorage)

\* C19 witness: a visit with an expired token ended authenticated through a
\* refresh.
C19_Witness ==
    /\ OrdinaryVisit /\ detBranch = "refresh" /\ detPc = "done"
    /\ isAuthenticated /\ user \in Profiles
    /\ getToken(localStorage, "access_token") = "at_new"

\* The page was loaded on an implicit-flow callback: matching state, an
\* access_token and no code in the URL; no login() or logout() called.
ImplicitVisit ==
    /\ constructed /\ NoHostOps
    /\ detPc # "init"
    /\ hasAuthParams(search)
    /\ urlGet(search, "state") = state
    /\ ~Truthy(urlGet(search, "code"))
    /\ Truthy(urlGet(search, "access_token"))

DetInFlight ==
    detPc \in {"exchange", "refresh_introspect", "refresh_token", "introspect",
               "userinfo"}

\* C25 (as claimed): in every reachable state, also with logout() overlapping
\* the determination or another logout(), isLoading is true whenever the
\* determination or a logout waits for a response.
C25_LoadingWhileInFlight ==
    (constructed /\ (DetInFlight \/ logoutsInFlight > 0)) => isLoading

\* C26 (as claimed): in every reachable state, for every interleaving of the
\* determination with logout(), isLoading false and isAuthenticated true imply
\* that an access token is in the store.
C26_AuthenticatedHasToken ==
    (constructed /\ ~isLoading /\ isAuthenticated) =>
        Truthy(getToken(localStorage, "access_token"))

\* C28 (as claimed): for an authenticated user, the protected-route guard of a
\* route whose role is the empty array (requireAllRoles not set) calls
\* hasRole([], false) and allows the navigation.
C28_EmptyRoleArrayAllowed ==
    (/\ GuardDecided("auth") /\ isAuthenticated
     /\ guard.route.role = [kind |-> "array", names |-> <<>>]
     /\ guard.route.requireAllRoles = "undefined") =>
        /\ guard.hasRoleArgs = [asked |-> TRUE,
                                role |-> [kind |-> "array", names |-> <<>>],
                                requireAllRoles |-> FALSE]
        /\ guard.next = "next()"

\* The query carries a non-empty state and a non-empty access_token or code.
CallbackQuery(q) ==
    /\ \E i \in DOMAIN q : q[i][1] = "state" /\ q[i][2] # ""
    /\ \E i \in DOMAIN q : q[i][1] \in {"access_token", "code"} /\ q[i][2] # ""

CallbackBranches == {"mismatch", "code", "implicit", "neither"}

\* C29: the determination takes a callback branch iff the query of the page
\* load carries a non-empty state and a non-empty access_token or code (the
\* query is the loaded one until a history replace strips it); a visit whose
\* URL has a code or token but no state takes an ordinary branch, sends no
\* exchange request and stores no token of the URL.
C29_CallbackNeedsState ==
    (constructed /\ detPc # "init") =>
        /\ CallbackQuery(search) => detBranch \in CallbackBranches
        /\ (~CallbackQuery(search) /\ historyReplaces = 0) =>
               /\ detBranch \in {"valid", "refresh"}
               /\ "token:authorization_code" \notin sent
               /\ \A type \in {"access_token", "refresh_token"} :
                      Truthy(urlGet(search, type)) =>
                          getToken(localStorage, type) # urlGet(search, type)

\* C29 witness: a page load on a URL with a code and a refresh token but an
\* empty state ended as an ordinary visit.
C29_Witness ==
    /\ constructed /\ detPc = "done"
    /\ detBranch \in {"valid", "refresh"}
    /\ Truthy(urlGet(search, "code")) /\ Truthy(urlGet(search, "refresh_token"))
    /\ urlGet(search, "state") = ""

\* login() number i is the only login() called so far.
SingleLogin(i) ==
    /\ loginPc[i] # "idle"
    /\ \A j \in DOMAIN loginPc : j # i => loginPc[j] = "idle"

\* C21: a single login() with nothing else in flight: between the call and
\* the navigation the fresh state is stored and the browser has not moved; at
\* the navigation the stored state is the state of the URL; in the code flow
\* (responseType code or not given) the URL carries the S256 challenge of the
\* stored verifier; in the implicit flow it carries no challenge, and no step
\* of the call changes the stored verifier.
C21_LoginStoresThenNavigates ==
    /\ [](\A i \in DOMAIN loginPc :
            SingleLogin(i) =>
                /\ loginPc[i] \in {"digest", "ready"} =>
                       /\ getState(localStorage) \notin {Absent, state}
                       /\ location = NoNav
                /\ loginPc[i] = "done" =>
                       /\ lastEvent = "login_nav"
                       /\ location.state = getState(localStorage)
                       /\ location.state \notin {Absent, state}
                       /\ IF authParams = "token"
                          THEN /\ location.response_type = "token"
                               /\ location.code_challenge = Absent
                               /\ location.code_challenge_method = Absent
                          ELSE /\ location.response_type = "code"
                               /\ location.code_challenge_method = "S256"
                               /\ Truthy(getCodeVerifier(localStorage))
                               /\ location.code_challenge =
                                      Challenge(getCodeVerifier(localStorage)))
    /\ [][(authParams = "token" /\ loginPc' # loginPc) =>
              getCodeVerifier(localStorage') = getCodeVerifier(localStorage)]_vars

\* C21 witness: a single login() of the code flow has navigated.
C21_Witness ==
    /\ SingleLogin(1) /\ loginPc[1] = "done"
    /\ authParams = Absent
    /\ getState(localStorage) = "s1" /\ location.state = "s1"
    /\ getCodeVerifier(localStorage) = "v1" /\ location.code_challenge = "h1"

\* C22: the step in which the challenge computation of a login() fails adds
\* the error to those raised to the caller, does not navigate and leaves the
\* verifier key alone; a failed login() has raised its error.
C22_ChallengeFailurePropagates ==
    /\ [](\A i \in DOMAIN loginPc : loginPc[i] = "failed" => "login" \in escaped)
    /\ [][\A i \in DOMAIN loginPc :
              (loginPc[i] = "digest" /\ loginPc'[i] = "failed") =>
                  /\ "login" \in escaped'
                  /\ location' = location
                  /\ getCodeVerifier(localStorage') = getCodeVerifier(localStorage)]_vars

\* C22 witness: the only login() failed; the browser has not moved and the
\* verifier of an earlier round trip is still stored.
C22_Witness ==
    /\ SingleLogin(1) /\ loginPc[1] = "failed"
    /\ "login" \in escaped
    /\ location = NoNav
    /\ getCodeVerifier(localStorage) = "v0"

\* C27 (as claimed): once two or more overlapping login() calls have all
\* navigated, the stored state is the state of the last navigation and, in
\* the code flow, the stored verifier is the one its challenge was computed
\* from.
C27_LastLoginWins ==
    (/\ loginPc[1] = "done" /\ loginPc[2] = "done"
     /\ \A i \in DOMAIN loginPc : loginPc[i] \in {"idle", "done"}) =>
        /\ getState(localStorage) = location.state
        /\ authParams # "token" =>
               location.code_challenge = Challenge(getCodeVerifier(localStorage))

\* C23 (as claimed): whatever the stored access token is, constructing the
\* auth object and running the startup determination raise no error, and
\* with an undecodable token isAuthenticated starts false.
C23_NoErrorReachesHost ==
    /\ constructed
    /\ escaped = {}
    /\ (detPc = "init" /\ ~parseJwt(getToken(localStorage, "access_token")).decoded) =>
           ~isAuthenticated

\* The exp of the stored access token as a number of seconds, if it is one.
NumericExp(token) ==
    LET exp == parseJwt(token).exp
    IN CASE exp.type = "number" -> [numeric |-> TRUE, n |-> exp.n]
         [] exp.type = "string" /\ exp.text = "6" -> [numeric |-> TRUE, n |-> 6]
         [] exp.type = "string" /\ exp.text = "4" -> [numeric |-> TRUE, n |-> 4]
         [] exp.type = "string" /\ exp.text = "0" -> [numeric |-> TRUE, n |-> 0]
         [] OTHER -> [numeric |-> FALSE, n |-> 0]

\* What the claim C24 expects of the local check for a stored token.
ExpectedValid(token) ==
    /\ token \notin {Absent, ""}
    /\ NumericExp(token).numeric
    /\ NumericExp(token).n # 0
    /\ NumericExp(token).n * 1000 > NowMs

FallbackCode(request) ==
    CASE request = "exchange" -> "exchange_failed"
      [] request = "refresh" -> "refresh_failed"
      [] request = "userinfo" -> "userinfo_failed"
      [] request = "introspect" -> "introspect_failed"
      [] request = "logout" -> "logout_failed"

\* The error response body has both a code and a message.
HasCodeAndMessage(response) ==
    /\ response.hasData
    /\ response.code \notin {Absent, ""}
    /\ response.message \notin {Absent, ""}

\* C30: every failure of the exchange, refresh, user-info, introspection and
\* logout requests is turned into an AuthError; when the response body has
\* both a code and a message the AuthError carries exactly that code, message
\* and details, otherwise it carries the fallback code of the request.  The
\* error of the exchange, refresh and user-info requests is the one the
\* handlers of the determination receive.
C30_FailuresBecomeAuthErrors ==
    lastError.request # "none" =>
        /\ IF HasCodeAndMessage(lastError.response)
           THEN /\ lastError.error.code = lastError.response.code
                /\ lastError.error.message = lastError.response.message
                /\ lastError.error.details = lastError.response.details
           ELSE lastError.error.code = FallbackCode(lastError.request)
        /\ lastError.request \in {"exchange", "refresh", "userinfo"} =>
               detError = lastError.error.code

\* C30 witness: a refresh request failed with a body that has a code and a
\* message but no details, and the handlers received the server's code.
C30_Witness ==
    /\ lastError.request = "refresh"
    /\ HasCodeAndMessage(lastError.response)
    /\ lastError.response.details = Absent
    /\ detError = "server_code"

\* C31: if every request of the startup determination is answered, then in
\* every branch isLoading eventually becomes false (and the determination is
\* over), and every guard invocation that waits on isLoading eventually
\* produces a navigation decision.
C31_LoadingEndsGuardsDecide ==
    /\ constructed ~> (detPc = "done" /\ ~isLoading)
    /\ (guard.pc = "waiting") ~> (guard.pc = "done")

\* C31 witness: a guard that had to wait for the determination has decided
\* after loading ended.
C31_Witness ==
    /\ guard.pc = "done" /\ guard.polls > 0
    /\ detPc = "done" /\ ~isLoading

\* C32: hasRole is a pure query: a call with any arguments in any state
\* leaves isLoading, isAuthenticated, user and the four store keys unchanged
\* and sends no request.
C32_HasRoleIsPure ==
    [][lastQuery'.asked =>
           UNCHANGED <<isLoading, isAuthenticated, user, localStorage, sent>>]_vars

\* C32 witness: hasRole was called for a user with roles and answered true.
C32_Witness ==
    /\ lastEvent = "hasRole" /\ lastQuery.asked /\ lastQuery.result
    /\ user # Null

\* The callback URL with the stored state, a code, an access_token and a
\* refresh_token.
CodeAndTokenQuery ==
    << <<"state", "s0">>, <<"code", "c1">>, <<"access_token", "at_url">>,
       <<"refresh_token", "rt_url">> >>

\* C33: when a callback URL with matching state carries both a code and an
\* access_token, only the code branch runs: the tokens of the URL are never
\* written to the store, and a token written to the store is the one the
\* token exchange returned.
C33_CodeBranchIgnoresUrlTokens ==
    /\ [](detBranch = "code" =>
              /\ getToken(localStorage, "access_token") # "at_url"
              /\ getToken(localStorage, "refresh_token") # "rt_url")
    /\ [](search = CodeAndTokenQuery /\ detPc # "init" => detBranch \in {"code", "mismatch"})
    /\ [][detBranch' = "code" =>
              /\ getToken(localStorage', "access_token") \in
                     {getToken(localStorage, "access_token"), Absent,
                      tokenResponse'.access_token}
              /\ getToken(localStorage', "refresh_token") \in
                     {getToken(localStorage, "refresh_token"), Absent,
                      tokenResponse'.refresh_token}]_vars

\* C33 witness: on such a callback the exchange has answered and its access
\* token is in the store while the URL still carries the other one.
C33_Witness ==
    /\ search = CodeAndTokenQuery /\ detBranch = "code" /\ detPc = "introspect"
    /\ getToken(localStorage, "access_token") = "at_new"
    /\ getToken(localStorage, "refresh_token") = "rt_new"

\* C34: the query of the visible URL is stripped, by a history replace and
\* with no navigation, only in the step in which the user-info fetch of the
\* code branch succeeds, that is after the code exchange and the user-info
\* fetch have both succeeded; in every other step (state mismatch, failures
\* of the code branch, implicit flow, ordinary visits) the URL is untouched.
C34_UrlStrippedOnlyOnCodeSuccess ==
    [][(search' # search \/ historyReplaces' # historyReplaces) =>
           /\ detBranch = "code" /\ detPc = "userinfo"
           /\ "token:authorization_code" \in sent
           /\ tokenResponse.access_token = "at_new"
           /\ detPc' = "done" /\ detError' = "none"
           /\ userData' # Null /\ user' = userData'
           /\ search' = <<>>
           /\ historyReplaces' = historyReplaces + 1
           /\ location' = location]_vars

\* C34 witness: a code callback whose exchange and user-info fetch succeeded
\* has had its query stripped by one history replace.
C34_Witness ==
    /\ detBranch = "code" /\ detPc = "done" /\ detError = "none"
    /\ search = <<>> /\ historyReplaces = 1
    /\ location = NoNav

\* C35 (as claimed): once the startup determination has set isLoading to
\* false it performs no further write to isAuthenticated, user or the
\* credential store, neither later in the same run nor in a later step.
C35_NoWriteAfterLoadingEnds ==
    detLoadingWrites > 0 => detLateWrites = 0

\* C36: in the code branch the exchanged access token is in the store when
\* the introspection request and the user-info request are issued, and
\* isAuthenticated is set to true only in the step in which the user-info
\* fetch succeeds, which is the step that sets user.
C36_CodeBranchOrder ==
    [][detBranch' = "code" =>
           /\ "introspect:access_token" \in sent' \ sent =>
                  /\ tokenResponse'.access_token = "at_new"
                  /\ getToken(localStorage', "access_token") = "at_new"
           /\ "userinfo" \in sent' \ sent =>
                  getToken(localStorage', "access_token") = "at_new"
           /\ (isAuthenticated' /\ ~isAuthenticated) =>
                  /\ detPc = "userinfo" /\ detPc' = "done" /\ detError' = "none"
                  /\ userData' # Null /\ user' = userData'
           /\ (user' # user /\ user' # Null) =>
                  /\ detPc = "userinfo" /\ detPc' = "done"
                  /\ isAuthenticated']_vars

\* C36 witness: a code callback with no logout() has ended with the exchanged
\* token stored, the user set and isAuthenticated true.
C36_Witness ==
    /\ detBranch = "code" /\ detPc = "done" /\ logoutCalls = 0
    /\ getToken(localStorage, "access_token") = "at_new"
    /\ isAuthenticated /\ user # Null
    /\ sent = {"token:authorization_code", "introspect:access_token", "userinfo"}

\* A logout() call has run to its end.
LogoutCompleted == logoutCalls - logoutsInFlight > 0

\* C37 (as claimed): after a logout() has completed, isAuthenticated stays
\* false, user stays null and the store stays free of tokens, even when the
\* startup determination that was in flight receives its responses later.
C37_LogoutIsFinal ==
    LogoutCompleted =>
        /\ ~isAuthenticated
        /\ user = Null
        /\ getToken(localStorage, "access_token") = Absent
        /\ getToken(localStorage, "refresh_token") = Absent

\* C38 (as claimed): when login() is called while the startup determination
\* or a logout() is in flight, then at the moment login() navigates, the state
\* it stored is under the state key and, in the code flow, its verifier is
\* under the verifier key, whatever the other operation did.
C38_LoginKeysSurvive ==
    \A i \in DOMAIN loginPc :
        (lastEvent = "login_nav" /\ loginPc[i] = "done") =>
            /\ getState(localStorage) = location.state
            /\ authParams # "token" =>
                   location.code_challenge = Challenge(getCodeVerifier(localStorage))

\* C39: each invocation of the protected-route guard, the role guard and
\* the login-page guard calls next exactly once, on the normal path and on
\* the error path: not before it has finished, once when it has, and a step
\* calls next at most once.
C39_NextCalledOnce ==
    /\ [](guard.pc \in {"idle", "waiting"} => guard.nextCalls = 0)
    /\ [](guard.pc = "done" =>
              /\ guard.nextCalls = 1
              /\ guard.next # "<not called>")
    /\ [][guard'.nextCalls # guard.nextCalls =>
              /\ guard'.nextCalls = guard.nextCalls + 1
              /\ guard'.pc = "done" /\ guard.pc # "done"
              /\ lastEvent' \in {"guard_decided", "guard_caught"}]_vars

\* C39 witness: the role guard, after waiting for the determination, has
\* called next once with the access-denied redirect.
C39_Witness ==
    /\ guard.pc = "done" /\ guard.route.kind = "role" /\ guard.polls > 0
    /\ lastEvent = "guard_decided"
    /\ guard.nextCalls = 1 /\ guard.next = "access-denied"

====
